---- MODULE Spec2Model ----
(***************************************************************************)
(* Trending-topic pipeline of NetaBako: the two source adapters            *)
(* (fetchYahooRealtime, fetchGoogleTrends), mergeAndRank, and the          *)
(* topic-search branch of main.                                            *)
(*                                                                         *)
(* Titles are sequences of byte codes (Go strings compare bytewise), so    *)
(* strings.TrimSpace, strings.ToLower and the < of the sort comparator are *)
(* computed on the bytes.  Notes are TLA+ strings.                         *)
(***************************************************************************)
EXTENDS Integers, Sequences, FiniteSets, TLC

\* ------------------------------------------------------------------ bounds
MaxList == 2        \* longest Topic list handed to mergeAndRank
MaxRank == 2        \* largest input rank handed to mergeAndRank
MaxTopN == 2        \* largest cap handed to mergeAndRank
MaxItems == 3       \* most <item> elements in one feed document
MaxAnchors == 4     \* most selected anchors in the listing page
MaxMax == 2         \* largest max handed to an adapter called on its own
MainItems == 1      \* most <item> elements per feed in a run of main
MainAnchors == 1    \* most selected anchors in a run of main

\* ------------------------------------------------------------- Go strings
\* unicode.IsSpace on the ASCII range: \t \n \v \f \r and space.
IsSpace(c) == c \in {9, 10, 11, 12, 13, 32}

RECURSIVE TrimLeft(_)
TrimLeft(s) ==
    IF s # <<>> /\ IsSpace(Head(s)) THEN TrimLeft(Tail(s)) ELSE s

RECURSIVE TrimRight(_)
TrimRight(s) ==
    IF s # <<>> /\ IsSpace(s[Len(s)])
    THEN TrimRight(SubSeq(s, 1, Len(s) - 1))
    ELSE s

\* strings.TrimSpace
TrimSpace(s) == TrimRight(TrimLeft(s))

\* strings.ToLower, on bytes: 'A'..'Z' map to 'a'..'z'.
LowerByte(c) == IF c \in 65..90 THEN c + 32 ELSE c
ToLower(s) == [i \in 1..Len(s) |-> LowerByte(s[i])]

\* Go's s < t on strings: bytewise lexicographic, a proper prefix is smaller.
RECURSIVE StrLess(_, _)
StrLess(s, t) ==
    IF t = <<>> THEN FALSE
    ELSE IF s = <<>> THEN TRUE
    ELSE IF Head(s) # Head(t) THEN Head(s) < Head(t)
    ELSE StrLess(Tail(s), Tail(t))

\* strings.Join(notes, " / ")
RECURSIVE Join(_)
Join(notes) ==
    IF notes = <<>> THEN ""
    ELSE IF Len(notes) = 1 THEN notes[1]
    ELSE notes[1] \o " / " \o Join(Tail(notes))

\* The merge / dedupe key: strings.ToLower(strings.TrimSpace(title)).
NormKey(title) == ToLower(TrimSpace(title))

\* ------------------------------------------------------------ input pools
\* "A", "a ", "B", "c", " "
TitlePool == { <<65>>, <<97, 32>>, <<66>>, <<99>>, <<32>> }
\* "A", "a ", "b"
SmallTitlePool == { <<65>>, <<97, 32>>, <<98>> }
Sources == { "yahoo", "google" }

MkTopic(s, t, n, r) == [Source |-> s, Title |-> t, Note |-> n, Rank |-> r]

SeqsUpTo(S, n) == UNION { [1..k -> S] : k \in 0..n }

\* All orderings of a finite set, as sequences without repetition.
Orderings(S) ==
    { f \in [1..Cardinality(S) -> S] : \A i, j \in 1..Cardinality(S) : i # j => f[i] # f[j] }

Min(a, b) == IF a < b THEN a ELSE b

\* ------------------------------------------------------------------ state
VARIABLES
    pc,             \* position in main's topic-search branch
    page,           \* anchors selected by "ol li a, ul li a", in document order
    ymax,           \* max handed to fetchYahooRealtime
    yahoo,          \* first Topic list (fetchYahooRealtime's result in main)
    yerr,           \* fetchYahooRealtime's error ("" is nil)
    feeds,          \* the responses of the two feed URLs
    gmax,           \* max handed to fetchGoogleTrends
    gi,             \* index of the next URL fetchGoogleTrends tries
    requests,       \* URLs requested so far, in order
    lastErr,        \* fetchGoogleTrends's lastErr ("" is nil)
    gfrom,          \* index of the URL the returned topics came from (0: none)
    google,         \* second Topic list (fetchGoogleTrends's result in main)
    gerr,           \* fetchGoogleTrends's returned error ("" is nil)
    topN,           \* cap handed to mergeAndRank
    sorted,         \* mergeAndRank's merged slice after sort.Slice
    result,         \* mergeAndRank's return value
    result2,        \* return value of a second, independent execution
    selectedTheme   \* main's selectedTheme

vars == << pc, page, ymax, yahoo, yerr, feeds, gmax, gi, requests, lastErr,
           gfrom, google, gerr, topN, sorted, result, result2, selectedTheme >>

\* --------------------------------------------------------- mergeAndRank
\* add with the key taken without strings.TrimSpace.
AddNoTrim(acc, t) ==
    LET key == ToLower(t.Title)
        a0 == IF key \in DOMAIN acc
              THEN acc[key]
              ELSE [Title |-> t.Title, Note |-> <<>>, Score |-> 0, Best |-> t]
        a1 == [a0 EXCEPT !.Score = IF t.Source = "yahoo" THEN @ + 3 ELSE @ + 2]
        a2 == IF t.Note # "" THEN [a1 EXCEPT !.Note = Append(@, t.Note)] ELSE a1
        a3 == IF t.Rank > 0 /\ (a2.Best.Rank = 0 \/ t.Rank < a2.Best.Rank)
              THEN [a2 EXCEPT !.Best = t]
              ELSE a2
    IN  IF key = <<>> THEN acc
        ELSE [k \in (DOMAIN acc) \cup {key} |-> IF k = key THEN a3 ELSE acc[k]]

\* add that replaces Best by any later topic with a positive rank.
AddLastWins(acc, t) ==
    LET key == NormKey(t.Title)
        a0 == IF key \in DOMAIN acc
              THEN acc[key]
              ELSE [Title |-> t.Title, Note |-> <<>>, Score |-> 0, Best |-> t]
        a1 == [a0 EXCEPT !.Score = IF t.Source = "yahoo" THEN @ + 3 ELSE @ + 2]
        a2 == IF t.Note # "" THEN [a1 EXCEPT !.Note = Append(@, t.Note)] ELSE a1
        a3 == IF t.Rank > 0 THEN [a2 EXCEPT !.Best = t] ELSE a2
    IN  IF key = <<>> THEN acc
        ELSE [k \in (DOMAIN acc) \cup {key} |-> IF k = key THEN a3 ELSE acc[k]]

\* The closure add, applied to the accumulator map acc (a function on its keys).
Add(acc, t) ==
    LET key == NormKey(t.Title)
        a0 == IF key \in DOMAIN acc
              THEN acc[key]
              ELSE [Title |-> t.Title, Note |-> <<>>, Score |-> 0, Best |-> t]
        a1 == [a0 EXCEPT !.Score = IF t.Source = "yahoo" THEN @ + 3 ELSE @ + 2]
        a2 == IF t.Note # "" THEN [a1 EXCEPT !.Note = Append(@, t.Note)] ELSE a1
        a3 == IF t.Rank > 0 /\ (a2.Best.Rank = 0 \/ t.Rank < a2.Best.Rank)
              THEN [a2 EXCEPT !.Best = t]
              ELSE a2
    IN  IF key = <<>> THEN acc
        ELSE [k \in (DOMAIN acc) \cup {key} |-> IF k = key THEN a3 ELSE acc[k]]

RECURSIVE AddAll(_, _)
AddAll(acc, ts) == IF ts = <<>> THEN acc ELSE AddAll(Add(acc, Head(ts)), Tail(ts))

\* The accumulator with the second range loop left out.
AccumulateFirstOnly(ys, gs) == AddAll(<<>>, ys)

\* The accumulator after both range loops: yahoo first, then google.
Accumulate(ys, gs) == AddAll(AddAll(<<>>, ys), gs)

\* The merged Topic emitted for one accumulator entry.
Emit(v) == [Source |-> "mix", Title |-> v.Title, Note |-> Join(v.Note), Rank |-> v.Best.Rank]

\* less without the two guards that put an absent rank last.
LessNoAbsent(a, b) ==
    IF a.Rank # b.Rank THEN a.Rank < b.Rank
    ELSE StrLess(a.Title, b.Title)

\* less without the title tie-break.
LessRankOnly(a, b) ==
    IF a.Rank = 0 /\ b.Rank > 0 THEN FALSE
    ELSE IF b.Rank = 0 /\ a.Rank > 0 THEN TRUE
    ELSE a.Rank < b.Rank

\* The less function handed to sort.Slice.
Less(a, b) ==
    IF a.Rank = 0 /\ b.Rank > 0 THEN FALSE
    ELSE IF b.Rank = 0 /\ a.Rank > 0 THEN TRUE
    ELSE IF a.Rank # b.Rank THEN a.Rank < b.Rank
    ELSE StrLess(a.Title, b.Title)

\* What sort.Slice guarantees of its result: no later element is less than
\* an earlier one.
IsSorted(s) == \A i, j \in 1..Len(s) : i < j => ~Less(s[j], s[i])

\* The slices sort.Slice may leave.  Ranging over the map appends one Topic
\* per key in an arbitrary order and sort.Slice (not stable) rearranges them,
\* so every arrangement of the emitted topics that is sorted is possible.
SortOutcomes(acc) ==
    { s \in Orderings({ Emit(acc[k]) : k \in DOMAIN acc }) : IsSorted(s) }

\* Truncation with topN >= 0 as its guard.
TruncateFromZero(m, n) == IF n >= 0 /\ Len(m) > n THEN SubSeq(m, 1, n) ELSE m

\* The final truncation to topN.
Truncate(m, n) == IF n > 0 /\ Len(m) > n THEN SubSeq(m, 1, n) ELSE m

\* mergeAndRank(yahoo, google, n) as one step.
MergeAndRankCall(n) ==
    /\ pc = "merge"
    /\ topN' = n
    /\ \E s \in SortOutcomes(Accumulate(yahoo, google)) :
          /\ sorted' = s
          /\ result' = Truncate(s, n)
    /\ pc' = "select"
    /\ UNCHANGED << page, ymax, yahoo, yerr, feeds, gmax, gi, requests, lastErr,
                    gfrom, google, gerr, result2, selectedTheme >>

\* The same call executed once more, on inputs whose Source tags are replaced
\* by arbitrary ones.
Retag(ts, tags) == [i \in 1..Len(ts) |-> [ts[i] EXCEPT !.Source = tags[i]]]

MergeAgain ==
    /\ pc = "select"
    /\ \E ty \in [1..Len(yahoo) -> Sources], tg \in [1..Len(google) -> Sources] :
         \E s \in SortOutcomes(Accumulate(Retag(yahoo, ty), Retag(google, tg))) :
            result2' = Truncate(s, topN)
    /\ pc' = "again"
    /\ UNCHANGED << page, ymax, yahoo, yerr, feeds, gmax, gi, requests, lastErr,
                    gfrom, google, gerr, topN, sorted, result, selectedTheme >>

\* mergeAndRank(google, yahoo, topN): the same call with the lists exchanged.
MergeSwapped ==
    /\ pc = "select"
    /\ \E s \in SortOutcomes(Accumulate(google, yahoo)) :
          result2' = Truncate(s, topN)
    /\ pc' = "swapped"
    /\ UNCHANGED << page, ymax, yahoo, yerr, feeds, gmax, gi, requests, lastErr,
                    gfrom, google, gerr, topN, sorted, result, selectedTheme >>

\* ------------------------------------------------------ fetchGoogleTrends
\* strings.Contains
Contains(s, sub) ==
    \E i \in 1..(Len(s) - Len(sub) + 1) : SubSeq(s, i, i + Len(sub) - 1) = sub

Char(s, i) == SubSeq(s, i, i)
IsNumChar(c) == c \in {"0", "1", "2", "3", "4", "5", "6", "7", "8", "9", ",", "."}
IsBlank(c) == c \in {" ", "\t", "\n", "\r", "\f"}

RECURSIVE SkipNum(_, _)
SkipNum(s, i) == IF i <= Len(s) /\ IsNumChar(Char(s, i)) THEN SkipNum(s, i + 1) ELSE i

RECURSIVE SkipBlank(_, _)
SkipBlank(s, i) == IF i <= Len(s) /\ IsBlank(Char(s, i)) THEN SkipBlank(s, i + 1) ELSE i

\* End (exclusive) of a match of ([0-9,\.]+)\s*searches starting at i, or 0.
\* The other alternative of reTraffic ends in a non-ASCII marker and cannot
\* match the ASCII descriptions drawn here.
MatchEnd(s, i) ==
    LET j == SkipNum(s, i)
        k == SkipBlank(s, j)
    IN  IF j > i /\ k + 7 <= Len(s) /\ SubSeq(s, k, k + 7) = "searches" THEN k + 8 ELSE 0

\* reTraffic.FindString: the leftmost match, "" when there is none.
FindTraffic(s) ==
    LET starts == { i \in 1..Len(s) : MatchEnd(s, i) # 0 }
    IN  IF starts = {} THEN ""
        ELSE LET i == CHOOSE a \in starts : \A b \in starts : a <= b
             IN  SubSeq(s, i, MatchEnd(s, i) - 1)

\* The loop over the items with Rank taken from the number of topics kept.
RECURSIVE CollectItemsDense(_, _, _, _)
CollectItemsDense(items, i, topics, max) ==
    IF i > Len(items) THEN topics
    ELSE LET title == TrimSpace(items[i].Title)
             t == MkTopic("google", title, FindTraffic(items[i].Description), Len(topics) + 1)
         IN  IF title = <<>> THEN CollectItemsDense(items, i + 1, topics, max)
             ELSE IF max > 0 /\ Len(topics) + 1 >= max THEN Append(topics, t)
             ELSE CollectItemsDense(items, i + 1, Append(topics, t), max)

\* The loop over rss.Channel.Items, from item index i (1-based), with the
\* topics collected so far.
RECURSIVE CollectItems(_, _, _, _)
CollectItems(items, i, topics, max) ==
    IF i > Len(items) THEN topics
    ELSE LET title == TrimSpace(items[i].Title)
             t == MkTopic("google", title, FindTraffic(items[i].Description), i)
         IN  IF title = <<>> THEN CollectItems(items, i + 1, topics, max)
             ELSE IF max > 0 /\ Len(topics) + 1 >= max THEN Append(topics, t)
             ELSE CollectItems(items, i + 1, Append(topics, t), max)

NoErr == [reason |-> "", url |-> 0]
MkErr(reason, url) == [reason |-> reason, url |-> url]

\* The failure of one attempt, "" when the response passes every check
\* before the items are read.
ResponseFailure(r) ==
    IF r.err THEN "request"
    ELSE IF ~Contains(r.ct, "xml") THEN "non-XML response"
    ELSE IF ~r.decodes THEN "decode"
    ELSE ""

\* One iteration that returns the topics without the len(topics) > 0 test.
TryUrlReturnEmpty ==
    /\ pc = "google"
    /\ gi <= Len(feeds)
    /\ requests' = Append(requests, gi)
    /\ LET r == feeds[gi]
           why == ResponseFailure(r)
           topics == CollectItems(r.items, 1, <<>>, gmax)
       IN  IF why # ""
           THEN /\ lastErr' = MkErr(why, gi)
                /\ gi' = gi + 1
                /\ UNCHANGED << google, gerr, gfrom, pc >>
           ELSE /\ google' = topics
                /\ gerr' = NoErr
                /\ gfrom' = gi
                /\ pc' = "check"
                /\ UNCHANGED << lastErr, gi >>
    /\ UNCHANGED << page, ymax, yahoo, yerr, feeds, gmax, topN, sorted, result,
                    result2, selectedTheme >>

\* One iteration of the loop over urls.
TryUrl ==
    /\ pc = "google"
    /\ gi <= Len(feeds)
    /\ requests' = Append(requests, gi)
    /\ LET r == feeds[gi]
           why == ResponseFailure(r)
           topics == CollectItems(r.items, 1, <<>>, gmax)
       IN  IF why # ""
           THEN /\ lastErr' = MkErr(why, gi)
                /\ gi' = gi + 1
                /\ UNCHANGED << google, gerr, gfrom, pc >>
           ELSE IF Len(topics) > 0
           THEN /\ google' = topics
                /\ gerr' = NoErr
                /\ gfrom' = gi
                /\ pc' = "check"
                /\ UNCHANGED << lastErr, gi >>
           ELSE /\ lastErr' = MkErr("zero items", gi)
                /\ gi' = gi + 1
                /\ UNCHANGED << google, gerr, gfrom, pc >>
    /\ UNCHANGED << page, ymax, yahoo, yerr, feeds, gmax, topN, sorted, result,
                    result2, selectedTheme >>

\* The return after the loop has run out of urls.
GiveUp ==
    /\ pc = "google"
    /\ gi > Len(feeds)
    /\ google' = <<>>
    /\ gerr' = lastErr
    /\ pc' = "check"
    /\ UNCHANGED << page, ymax, yahoo, yerr, feeds, gmax, gi, requests, lastErr,
                    gfrom, topN, sorted, result, result2, selectedTheme >>

\* ----------------------------------------------------- fetchYahooRealtime
\* The Each callback over the selection: anchor i (1-based) of the walk.
RECURSIVE WalkAnchors(_, _)
WalkAnchors(anchors, i) ==
    IF i > Len(anchors) THEN <<>>
    ELSE LET txt == TrimSpace(anchors[i].text)
         IN  IF txt = <<>> \/ ~Contains(anchors[i].href, "/realtime/search")
             THEN WalkAnchors(anchors, i + 1)
             ELSE << MkTopic("yahoo", txt, "", i) >> \o WalkAnchors(anchors, i + 1)

\* The dedupe loop without seen[key] = true.
RECURSIVE DedupeNoMark(_, _, _, _, _)
DedupeNoMark(topics, i, seen, out, max) ==
    IF i > Len(topics) THEN out
    ELSE LET key == NormKey(topics[i].Title)
         IN  IF key = <<>> \/ key \in seen THEN DedupeNoMark(topics, i + 1, seen, out, max)
             ELSE IF max > 0 /\ Len(out) + 1 >= max THEN Append(out, topics[i])
             ELSE DedupeNoMark(topics, i + 1, seen, Append(out, topics[i]), max)

\* The dedupe-and-truncate loop, from topic index i, with seen and out so far.
RECURSIVE Dedupe(_, _, _, _, _)
Dedupe(topics, i, seen, out, max) ==
    IF i > Len(topics) THEN out
    ELSE LET key == NormKey(topics[i].Title)
         IN  IF key = <<>> \/ key \in seen THEN Dedupe(topics, i + 1, seen, out, max)
             ELSE IF max > 0 /\ Len(out) + 1 >= max THEN Append(out, topics[i])
             ELSE Dedupe(topics, i + 1, seen \cup {key}, Append(out, topics[i]), max)

YahooTopics(anchors, max) == Dedupe(WalkAnchors(anchors, 1), 1, {}, <<>>, max)

\* fetchYahooRealtime(ctx, max) as one step.
FetchYahooCall(max) ==
    /\ pc = "yahoo"
    /\ ymax' = max
    /\ IF page.err THEN yahoo' = <<>> /\ yerr' = "request"
       ELSE IF page.status # 200 THEN yahoo' = <<>> /\ yerr' = "status"
       ELSE IF ~page.parses THEN yahoo' = <<>> /\ yerr' = "parse"
       ELSE LET out == YahooTopics(page.anchors, max)
            IN  IF Len(out) = 0
                THEN yahoo' = <<>> /\ yerr' = "no topics parsed"
                ELSE yahoo' = out /\ yerr' = ""
    /\ pc' = "google"
    /\ UNCHANGED << page, feeds, gmax, gi, requests, lastErr, gfrom, google, gerr,
                    topN, sorted, result, result2, selectedTheme >>

\* --------------------------------------------------------------------- main
MainMax == 10
MainTopN == 10

\* The fatal check with || in place of &&.
CheckTopicsEither ==
    /\ pc = "check"
    /\ pc' = IF Len(yahoo) = 0 \/ Len(google) = 0 THEN "fatal" ELSE "merge"
    /\ UNCHANGED << page, ymax, yahoo, yerr, feeds, gmax, gi, requests, lastErr,
                    gfrom, google, gerr, topN, sorted, result, result2, selectedTheme >>

\* The fatal check after both fetches.
CheckTopics ==
    /\ pc = "check"
    /\ pc' = IF Len(yahoo) = 0 /\ Len(google) = 0 THEN "fatal" ELSE "merge"
    /\ UNCHANGED << page, ymax, yahoo, yerr, feeds, gmax, gi, requests, lastErr,
                    gfrom, google, gerr, topN, sorted, result, result2, selectedTheme >>

\* rand.Intn(len(merged)) panics when its argument is not positive.
SelectTheme ==
    /\ pc = "select"
    /\ IF Len(result) <= 0
       THEN pc' = "panic" /\ UNCHANGED selectedTheme
       ELSE \E arrayIdx \in 0..(Len(result) - 1) :
               /\ selectedTheme' = result[arrayIdx + 1].Title
               /\ pc' = "done"
    /\ UNCHANGED << page, ymax, yahoo, yerr, feeds, gmax, gi, requests, lastErr,
                    gfrom, google, gerr, topN, sorted, result, result2 >>

\* ------------------------------------------------------------ input pools
HrefTrend == "/realtime/search?p=x"
HrefOther == "/about"
MkAnchor(h, t) == [href |-> h, text |-> t]
\* "A", " a", "b", "c", " " as trend links, "A" as a navigation link.
AnchorPool ==
    { MkAnchor(HrefTrend, <<65>>), MkAnchor(HrefTrend, <<32, 97>>),
      MkAnchor(HrefTrend, <<98>>), MkAnchor(HrefTrend, <<99>>),
      MkAnchor(HrefTrend, <<32>>), MkAnchor(HrefOther, <<65>>) }

OkPage(anchors) == [err |-> FALSE, status |-> 200, parses |-> TRUE, anchors |-> anchors]
BadPages ==
    { [err |-> TRUE, status |-> 0, parses |-> FALSE, anchors |-> <<>>],
      [err |-> FALSE, status |-> 503, parses |-> FALSE, anchors |-> <<>>],
      [err |-> FALSE, status |-> 200, parses |-> FALSE, anchors |-> <<>>] }
Pages(n) == BadPages \cup { OkPage(a) : a \in SeqsUpTo(AnchorPool, n) }

MkItem(t, d) == [Title |-> t, Description |-> d]
\* <title>: "A", "b ", " "
ItemPool ==
    { MkItem(<<65>>, "about 2,000 searches today"), MkItem(<<98, 32>>, "2000+ searches"),
      MkItem(<<32>>, "20 searches") }

OkFeed(items) == [err |-> FALSE, ct |-> "application/rss+xml", decodes |-> TRUE, items |-> items]
BadFeeds ==
    { [err |-> TRUE, ct |-> "", decodes |-> FALSE, items |-> <<>>],
      [err |-> FALSE, ct |-> "text/html; charset=utf-8", decodes |-> TRUE,
       items |-> << MkItem(<<65>>, "") >>],
      [err |-> FALSE, ct |-> "text/xml", decodes |-> FALSE, items |-> <<>>] }
Feeds(n) == BadFeeds \cup { OkFeed(i) : i \in SeqsUpTo(ItemPool, n) }

MergeTopics == { MkTopic("yahoo", t, "", r) : t \in TitlePool, r \in 0..MaxRank }
DetTopics(s, n) == { MkTopic(s, t, note, r) : t \in SmallTitlePool, note \in {"", n}, r \in 0..1 }

\* ------------------------------------------------------------ specifications
\* mergeAndRank on arbitrary lists.
InitMerge ==
    /\ pc = "merge"
    /\ page = OkPage(<<>>) /\ ymax = 0 /\ yerr = ""
    /\ feeds = <<>> /\ gmax = 0 /\ gi = 1 /\ requests = <<>> /\ lastErr = NoErr
    /\ gfrom = 0 /\ gerr = NoErr
    /\ yahoo \in SeqsUpTo(MergeTopics, MaxList)
    /\ google \in SeqsUpTo(MergeTopics, MaxList)
    /\ topN = 0 /\ sorted = <<>> /\ result = <<>> /\ result2 = <<>>
    /\ selectedTheme = <<>>

NextMerge == \E n \in -1..MaxTopN : MergeAndRankCall(n)

SpecMerge == InitMerge /\ [][NextMerge]_vars

\* mergeAndRank called with the lists in both orders.
NextComm == (\E n \in -1..MaxTopN : MergeAndRankCall(n)) \/ MergeSwapped

SpecComm == InitMerge /\ [][NextComm]_vars

\* mergeAndRank executed twice on lists with notes and source tags.
InitDet ==
    /\ pc = "merge"
    /\ page = OkPage(<<>>) /\ ymax = 0 /\ yerr = ""
    /\ feeds = <<>> /\ gmax = 0 /\ gi = 1 /\ requests = <<>> /\ lastErr = NoErr
    /\ gfrom = 0 /\ gerr = NoErr
    /\ yahoo \in SeqsUpTo(DetTopics("yahoo", "x"), MaxList)
    /\ google \in SeqsUpTo(DetTopics("google", "y"), MaxList)
    /\ topN = 0 /\ sorted = <<>> /\ result = <<>> /\ result2 = <<>>
    /\ selectedTheme = <<>>

NextDet == (\E n \in -1..MaxTopN : MergeAndRankCall(n)) \/ MergeAgain

SpecDet == InitDet /\ [][NextDet]_vars

\* fetchGoogleTrends on its own.
InitGoogle ==
    /\ pc = "google"
    /\ page = OkPage(<<>>) /\ ymax = 0 /\ yahoo = <<>> /\ yerr = ""
    /\ feeds \in [1..2 -> Feeds(MaxItems)]
    /\ gmax \in 0..MaxMax
    /\ gi = 1 /\ requests = <<>> /\ lastErr = NoErr
    /\ gfrom = 0 /\ google = <<>> /\ gerr = NoErr
    /\ topN = 0 /\ sorted = <<>> /\ result = <<>> /\ result2 = <<>>
    /\ selectedTheme = <<>>

NextGoogle == TryUrl \/ GiveUp

SpecGoogle == InitGoogle /\ [][NextGoogle]_vars

\* fetchYahooRealtime on its own.
InitYahoo ==
    /\ pc = "yahoo"
    /\ page \in Pages(MaxAnchors)
    /\ ymax = 0 /\ yahoo = <<>> /\ yerr = ""
    /\ feeds = <<>> /\ gmax = 0 /\ gi = 1 /\ requests = <<>> /\ lastErr = NoErr
    /\ gfrom = 0 /\ google = <<>> /\ gerr = NoErr
    /\ topN = 0 /\ sorted = <<>> /\ result = <<>> /\ result2 = <<>>
    /\ selectedTheme = <<>>

NextYahoo == \E m \in 0..MaxMax : FetchYahooCall(m)

SpecYahoo == InitYahoo /\ [][NextYahoo]_vars

\* The topic-search branch of main.
InitMain ==
    /\ pc = "yahoo"
    /\ page \in Pages(MainAnchors)
    /\ ymax = 0 /\ yahoo = <<>> /\ yerr = ""
    /\ feeds \in [1..2 -> Feeds(MainItems)]
    /\ gmax = MainMax
    /\ gi = 1 /\ requests = <<>> /\ lastErr = NoErr
    /\ gfrom = 0 /\ google = <<>> /\ gerr = NoErr
    /\ topN = 0 /\ sorted = <<>> /\ result = <<>> /\ result2 = <<>>
    /\ selectedTheme = <<>>

NextMain ==
    \/ FetchYahooCall(MainMax)
    \/ TryUrl
    \/ GiveUp
    \/ CheckTopics
    \/ MergeAndRankCall(MainTopN)
    \/ SelectTheme

Spec == InitMain /\ [][NextMain]_vars

\* =================================================================== claims
Inputs == yahoo \o google

\* The distinct non-empty normalized titles of a Topic list.
KeysOf(ts) == { NormKey(ts[i].Title) : i \in 1..Len(ts) } \ { <<>> }

\* The input topics whose normalized title is k.
Sharing(k) == { i \in 1..Len(Inputs) : NormKey(Inputs[i].Title) = k }

Ranks(ts) == [i \in 1..Len(ts) |-> ts[i].Rank]

Merged == pc = "select"

\* C1: with no truncation in effect (topN = 0, or topN at least the number of
\* distinct keys) the merged list holds exactly one entry per distinct
\* non-empty normalized title of the two input lists and no other entry.
C1_OneEntryPerKey ==
    (Merged /\ (topN = 0 \/ topN >= Cardinality(KeysOf(Inputs)))) =>
        /\ \A k \in KeysOf(Inputs) :
              Cardinality({ i \in 1..Len(result) : NormKey(result[i].Title) = k }) = 1
        /\ \A i \in 1..Len(result) : NormKey(result[i].Title) \in KeysOf(Inputs)

\* Four inputs, two of which differ only in case or surrounding whitespace and
\* one of which is blank, merged into two entries.
C1_Witness ==
    /\ Merged /\ topN = 0
    /\ Len(yahoo) = 2 /\ Len(google) = 2
    /\ \E i, j \in 1..Len(Inputs) :
          /\ Inputs[i].Title # Inputs[j].Title
          /\ NormKey(Inputs[i].Title) = NormKey(Inputs[j].Title)
          /\ NormKey(Inputs[i].Title) # <<>>
    /\ \E i \in 1..Len(Inputs) : NormKey(Inputs[i].Title) = <<>>
    /\ Len(result) = 2

\* C2: in the returned list an absent rank never precedes a positive rank,
\* positive ranks ascend, and entries of equal rank ascend by title.
C2_SortOrder ==
    Merged =>
        \A i, j \in 1..Len(result) : i < j =>
            /\ ~(result[i].Rank = 0 /\ result[j].Rank > 0)
            /\ (result[i].Rank > 0 /\ result[j].Rank > 0) => result[i].Rank <= result[j].Rank
            /\ (result[i].Rank = result[j].Rank) => StrLess(result[i].Title, result[j].Title)

\* Three entries: two tied on a positive rank, then one without rank.
C2_Witness ==
    /\ Merged
    /\ Len(result) = 3
    /\ result[1].Rank > 0 /\ result[1].Rank = result[2].Rank
    /\ result[3].Rank = 0

\* C3: the rank of every returned entry is the smallest positive rank among
\* the input topics sharing its normalized title, or 0 if none is positive.
C3_BestRank ==
    Merged =>
        \A e \in 1..Len(result) :
            LET pos == { Inputs[i].Rank : i \in Sharing(NormKey(result[e].Title)) } \ { 0 }
            IN  IF pos = {} THEN result[e].Rank = 0
                ELSE /\ result[e].Rank \in pos
                     /\ \A r \in pos : result[e].Rank <= r

\* "A" with rank 2, then "a " with rank 1, and "B" with rank 2: "A" is
\* returned with rank 1, followed by "B" with rank 2.
C3_Witness ==
    /\ Merged
    /\ yahoo = << MkTopic("yahoo", <<65>>, "", 2), MkTopic("yahoo", <<97, 32>>, "", 1) >>
    /\ google = << MkTopic("yahoo", <<66>>, "", 2) >>
    /\ Ranks(result) = << 1, 2 >>
    /\ result[1].Title = <<65>> /\ result[2].Title = <<66>>

Swapped == pc = "swapped"

\* C4 as stated: for every cap topN, the two orders of the lists return the
\* same set of normalized titles.
C4_SameKeysAnyTopN ==
    Swapped => KeysOf(result) = KeysOf(result2)

\* C4 amended: the two orders return the same set of normalized titles
\* whenever the cap truncates nothing, and under every cap they return the
\* same number of entries with the same sequence of ranks.
C4_SameKeysUntruncated ==
    Swapped =>
        /\ (topN <= 0 \/ topN >= Cardinality(KeysOf(Inputs))) => KeysOf(result) = KeysOf(result2)
        /\ Ranks(result) = Ranks(result2)

\* Two keys, each contributed by both lists under different display titles,
\* merged in both orders without truncation.
C4_Witness ==
    /\ Swapped /\ topN = 0
    /\ Len(result) = 2
    /\ KeysOf(yahoo) = KeysOf(google)
    /\ \E i \in 1..Len(result) : result[i].Title # result2[i].Title

\* C5: when topN > 0 and there are more than topN distinct normalized titles,
\* exactly topN entries are returned, they are the first topN of the sorted
\* merged list and no dropped entry sorts before a returned one; otherwise
\* nothing is dropped.
C5_Truncation ==
    Merged =>
        IF topN > 0 /\ Cardinality(KeysOf(Inputs)) > topN
        THEN /\ Len(result) = topN
             /\ \A i \in 1..topN : result[i] = sorted[i]
             /\ \A i \in 1..topN, j \in (topN + 1)..Len(sorted) : ~Less(sorted[j], result[i])
        ELSE /\ result = sorted
             /\ Len(result) = Cardinality(KeysOf(Inputs))

\* Three distinct titles under a cap of 2.
C5_Witness ==
    /\ Merged /\ topN = 2
    /\ Cardinality(KeysOf(Inputs)) = 3
    /\ Len(sorted) = 3 /\ Len(result) = 2

\* C10: two executions of mergeAndRank on the same lists and cap return the
\* same sequence, whatever the map's iteration order, the sort's handling of
\* the slice and the source tags of the inputs; no two merged entries have
\* both the same rank and the same display title.
C10_Deterministic ==
    /\ pc = "again" => result2 = result
    /\ pc \in {"select", "again"} =>
          \A i, j \in 1..Len(sorted) :
              (sorted[i].Rank = sorted[j].Rank /\ sorted[i].Title = sorted[j].Title) => i = j

\* Two entries tied on rank, each with notes from both lists, returned by
\* both executions.
C10_Witness ==
    /\ pc = "again"
    /\ Len(result2) = 2
    /\ result2[1].Rank = result2[2].Rank
    /\ result2[1].Note = "x / y"

\* The items of a feed response that survive the empty-title filter, as
\* 1-based positions in the document.
Surviving(r) == { i \in 1..Len(r.items) : TrimSpace(r.items[i].Title) # <<>> }

\* A response fails a success criterion of fetchGoogleTrends.
Fails(r) == r.err \/ ~Contains(r.ct, "xml") \/ ~r.decodes \/ Surviving(r) = {}

GoogleReturned == pc = "check"

\* C6: the primary URL is requested first and the secondary only after it;
\* on return the secondary has been requested iff the primary failed a
\* success criterion, the topics come from the first endpoint that succeeded,
\* and if both failed the list is empty and the error is that of the
\* secondary attempt.
C6_Fallback ==
    /\ requests \in { <<>>, << 1 >>, << 1, 2 >> }
    /\ GoogleReturned =>
          /\ requests = IF Fails(feeds[1]) THEN << 1, 2 >> ELSE << 1 >>
          /\ ~Fails(feeds[1]) => gfrom = 1
          /\ (Fails(feeds[1]) /\ ~Fails(feeds[2])) => gfrom = 2
          /\ gfrom # 0 =>
                /\ gerr = NoErr
                /\ Len(google) > 0
                /\ \A n \in 1..Len(google) :
                      /\ google[n].Rank \in Surviving(feeds[gfrom])
                      /\ google[n].Title = TrimSpace(feeds[gfrom].items[google[n].Rank].Title)
          /\ (Fails(feeds[1]) /\ Fails(feeds[2])) =>
                /\ gfrom = 0
                /\ google = <<>>
                /\ gerr.url = 2
                /\ gerr.reason = IF ResponseFailure(feeds[2]) # ""
                                 THEN ResponseFailure(feeds[2])
                                 ELSE "zero items"

\* The primary answers with a non-XML content type and the secondary
\* succeeds.
C6_Witness ==
    /\ GoogleReturned
    /\ ~feeds[1].err /\ ~Contains(feeds[1].ct, "xml")
    /\ requests = << 1, 2 >>
    /\ gfrom = 2 /\ Len(google) > 0

\* The number of records fetchGoogleTrends returns from a feed with k
\* surviving items.
Expected(max, k) == IF max > 0 THEN Min(max, k) ELSE k

\* The n-th smallest element of a set of positions.
Nth(S, n) == CHOOSE x \in S : Cardinality({ y \in S : y <= x }) = n

\* Count and order of the records returned from the endpoint used.
ItemsInOrder ==
    LET kept == Surviving(feeds[gfrom])
    IN  /\ Len(google) = Expected(gmax, Cardinality(kept))
        /\ \A n \in 1..Len(google) :
              google[n].Title = TrimSpace(feeds[gfrom].items[Nth(kept, n)].Title)

\* C7 as stated: min(max, k) records (all k when max = 0), in item order,
\* with ranks 1, 2, ..., n.
C7_RanksOneToN ==
    (GoogleReturned /\ gfrom # 0) =>
        /\ ItemsInOrder
        /\ \A n \in 1..Len(google) : google[n].Rank = n

\* C7 amended: min(max, k) records (all k when max = 0), in item order, each
\* with the 1-based position of its item among all items of the feed as rank.
C7_RanksArePositions ==
    (GoogleReturned /\ gfrom # 0) =>
        /\ ItemsInOrder
        /\ \A n \in 1..Len(google) : google[n].Rank = Nth(Surviving(feeds[gfrom]), n)

\* The secondary feed has three items, the first with a blank title, and
\* max = 1 cuts the two surviving items down to one, which has rank 2.
C7_Witness ==
    /\ GoogleReturned /\ gfrom = 2
    /\ gmax = 1
    /\ Len(feeds[2].items) = 3
    /\ Surviving(feeds[2]) = { 2, 3 }
    /\ Ranks(google) = << 2 >>

\* The anchors that pass the link-target and non-empty-text filter, as
\* 1-based positions in the walk.
Passing == { i \in 1..Len(page.anchors) :
                /\ TrimSpace(page.anchors[i].text) # <<>>
                /\ Contains(page.anchors[i].href, "/realtime/search") }

AnchorKey(i) == NormKey(page.anchors[i].text)

PageOk == ~page.err /\ page.status = 200 /\ page.parses

YahooReturned == pc = "google"

\* C8: on a page with u >= 1 distinct normalized titles among the passing
\* anchors and max > 0, min(max, u) topics are returned in document order,
\* one per normalized title with its first occurrence kept, each ranked by
\* its position in the raw walk; ranks increase strictly.
C8_FirstOccurrences ==
    LET u == Cardinality({ AnchorKey(i) : i \in Passing })
    IN  (YahooReturned /\ PageOk /\ u >= 1 /\ ymax > 0) =>
            /\ yerr = ""
            /\ Len(yahoo) = Min(ymax, u)
            /\ \A n \in 1..Len(yahoo) :
                  /\ yahoo[n].Rank \in Passing
                  /\ yahoo[n].Title = TrimSpace(page.anchors[yahoo[n].Rank].text)
                  /\ \A i \in Passing : i < yahoo[n].Rank => AnchorKey(i) # AnchorKey(yahoo[n].Rank)
                  /\ \A i \in Passing : i < yahoo[n].Rank =>
                        \E m \in 1..(n - 1) : NormKey(yahoo[m].Title) = AnchorKey(i)
            /\ \A m, n \in 1..Len(yahoo) : m < n =>
                  /\ yahoo[m].Rank < yahoo[n].Rank
                  /\ NormKey(yahoo[m].Title) # NormKey(yahoo[n].Title)

\* Four anchors with three distinct titles among the passing ones, max = 2:
\* two topics come back and their ranks are not consecutive.
C8_Witness ==
    /\ YahooReturned /\ PageOk
    /\ ymax = 2
    /\ Len(page.anchors) = 4
    /\ Cardinality({ AnchorKey(i) : i \in Passing }) = 3
    /\ \E i, j \in Passing : i < j /\ AnchorKey(i) = AnchorKey(j)
    /\ Len(yahoo) = 2
    /\ yahoo[2].Rank > yahoo[1].Rank + 1

\* C9: the run aborts iff both adapters returned empty lists; otherwise it
\* goes on to mergeAndRank, the merged list is non-empty, the random index
\* is within range and the selected theme is the title of a merged entry.
C9_FatalIffBothEmpty ==
    /\ pc = "fatal" => (Len(yahoo) = 0 /\ Len(google) = 0)
    /\ pc \in {"merge", "select", "done"} => (Len(yahoo) > 0 \/ Len(google) > 0)
    /\ pc \in {"select", "done"} => Len(result) > 0
    /\ pc # "panic"
    /\ pc = "done" => \E i \in 1..Len(result) : selectedTheme = result[i].Title

\* The listing page fails, the feed succeeds, and a theme is selected.
C9_Witness ==
    /\ pc = "done"
    /\ yerr # "" /\ Len(yahoo) = 0
    /\ gerr = NoErr /\ Len(google) > 0
    /\ selectedTheme # <<>>
====
